---- MODULE Spec2Model ----
(***************************************************************************)
(* MigSafe: the rule engine (src/rules.py) and the lint command            *)
(* (src/migsafe.py).                                                       *)
(*                                                                         *)
(* A text is a sequence of one-character strings, so that splitting,       *)
(* trimming, whitespace collapsing, line counting and the regular          *)
(* expressions of the rule catalog are computed character by character.    *)
(* An Optional[int] is <<>> (None) or <<n>>.                               *)
(***************************************************************************)
EXTENDS Integers, Sequences, FiniteSets, TLC

VARIABLES
    sql,          \* analyze / _split_statements: the SQL text
    rows,         \* the row-count hint
    stmts,        \* what _split_statements yielded
    findings,     \* the list a call of analyze returned (risk_score's input)
    previous,     \* the list the call before it returned
    extra,        \* the text the caller appends to the script before the next call
    score,        \* what risk_score returned
    prev_score,   \* what risk_score returned for `previous`
    base_ms,      \* estimate_lock_ms: its first argument
    lock_ms,      \* estimate_lock_ms: its result
    paths,        \* lint: the path arguments
    fmt,          \* lint: --format
    fail_on,      \* lint: --fail-on
    all_findings, \* lint: file path -> findings, in insertion order
    printed,      \* lint: what was written to standard output
    exit_code,    \* lint: the process's exit status, <<>> while running
    catalog,      \* the module-level list RULES
    calls,        \* how many calls of analyze the caller has made
    pc            \* where the caller is

vars == <<sql, rows, stmts, findings, previous, extra, score, prev_score,
          base_ms, lock_ms, paths, fmt, fail_on, all_findings, printed,
          exit_code, catalog, calls, pc>>

-----------------------------------------------------------------------------
(* Characters and Python's str methods                                     *)

None == <<>>
Some(n) == <<n>>

Min(a, b) == IF a <= b THEN a ELSE b
Max(a, b) == IF a >= b THEN a ELSE b

\* A text is a sequence of characters. An ASCII character is the one-character
\* string holding it; a code point beyond ASCII is written by its name, "U+00E9".

\* str.isspace: what strip(), split() and \s of a str pattern take for
\* whitespace. The ASCII ones are the space, \t \n \v \f \r and the four
\* separators 0x1c-0x1f.
AsciiWhitespace ==
    {" ", "\t", "\n", "\r", "\f", "", "", "", "", ""}

UnicodeWhitespace ==
    {"U+0085", "U+00A0", "U+1680", "U+2000", "U+2001", "U+2002", "U+2003",
     "U+2004", "U+2005", "U+2006", "U+2007", "U+2008", "U+2009", "U+200A",
     "U+2028", "U+2029", "U+202F", "U+205F", "U+3000"}

Whitespace == AsciiWhitespace \cup UnicodeWhitespace
IsSpace(c) == c \in Whitespace

UpperOf ==
    [c \in {"a","b","c","d","e","f","g","h","i","j","k","l","m",
            "n","o","p","q","r","s","t","u","v","w","x","y","z"} |->
        CASE c = "a" -> "A" [] c = "b" -> "B" [] c = "c" -> "C" [] c = "d" -> "D"
          [] c = "e" -> "E" [] c = "f" -> "F" [] c = "g" -> "G" [] c = "h" -> "H"
          [] c = "i" -> "I" [] c = "j" -> "J" [] c = "k" -> "K" [] c = "l" -> "L"
          [] c = "m" -> "M" [] c = "n" -> "N" [] c = "o" -> "O" [] c = "p" -> "P"
          [] c = "q" -> "Q" [] c = "r" -> "R" [] c = "s" -> "S" [] c = "t" -> "T"
          [] c = "u" -> "U" [] c = "v" -> "V" [] c = "w" -> "W" [] c = "x" -> "X"
          [] c = "y" -> "Y" [] c = "z" -> "Z"]

\* The code points beyond ASCII that re.IGNORECASE pairs with an ASCII letter:
\* the dotted capital I and the dotless i with I, the long s with S and the
\* Kelvin sign with K.
FoldsTo ==
    [c \in {"U+0130", "U+0131", "U+017F", "U+212A"} |->
        CASE c = "U+0130" -> "I" [] c = "U+0131" -> "I"
          [] c = "U+017F" -> "S" [] c = "U+212A" -> "K"]

\* re.IGNORECASE, for the ASCII letters of the patterns: a pattern letter matches
\* both of its cases and the code points that fold to it.
ToUpper(c) ==
    IF c \in DOMAIN UpperOf THEN UpperOf[c]
    ELSE IF c \in DOMAIN FoldsTo THEN FoldsTo[c]
    ELSE c

Digits == {"0","1","2","3","4","5","6","7","8","9"}
UpperLetters == {UpperOf[c] : c \in DOMAIN UpperOf}

HexDigit ==
    [d \in Digits \cup {"A", "B", "C", "D", "E", "F"} |->
        CASE d = "0" -> 0 [] d = "1" -> 1 [] d = "2" -> 2 [] d = "3" -> 3
          [] d = "4" -> 4 [] d = "5" -> 5 [] d = "6" -> 6 [] d = "7" -> 7
          [] d = "8" -> 8 [] d = "9" -> 9 [] d = "A" -> 10 [] d = "B" -> 11
          [] d = "C" -> 12 [] d = "D" -> 13 [] d = "E" -> 14 [] d = "F" -> 15]

RECURSIVE HexValue(_, _)
HexValue(h, acc) ==
    IF Len(h) = 0 THEN acc
    ELSE HexValue(SubSeq(h, 2, Len(h)), 16 * acc + HexDigit[SubSeq(h, 1, 1)])

\* The number of a code point written by its name: CodePoint("U+00E9") = 233.
CodePoint(c) == HexValue(SubSeq(c, 3, Len(c)), 0)

\* The alphanumeric code points beyond ASCII (str.isalnum, Unicode 14.0.0, the
\* tables of Python 3.11), as the ranges <<first, last>> they form.
WordRanges ==
    {<<170, 170>>, <<178, 179>>, <<181, 181>>, <<185, 186>>, <<188, 190>>,
     <<192, 214>>, <<216, 246>>, <<248, 705>>, <<710, 721>>, <<736, 740>>,
     <<748, 748>>, <<750, 750>>, <<880, 884>>, <<886, 887>>, <<890, 893>>,
     <<895, 895>>, <<902, 902>>, <<904, 906>>, <<908, 908>>, <<910, 929>>,
     <<931, 1013>>, <<1015, 1153>>, <<1162, 1327>>, <<1329, 1366>>, <<1369, 1369>>,
     <<1376, 1416>>, <<1488, 1514>>, <<1519, 1522>>, <<1568, 1610>>, <<1632, 1641>>,
     <<1646, 1647>>, <<1649, 1747>>, <<1749, 1749>>, <<1765, 1766>>, <<1774, 1788>>,
     <<1791, 1791>>, <<1808, 1808>>, <<1810, 1839>>, <<1869, 1957>>, <<1969, 1969>>,
     <<1984, 2026>>, <<2036, 2037>>, <<2042, 2042>>, <<2048, 2069>>, <<2074, 2074>>,
     <<2084, 2084>>, <<2088, 2088>>, <<2112, 2136>>, <<2144, 2154>>, <<2160, 2183>>,
     <<2185, 2190>>, <<2208, 2249>>, <<2308, 2361>>, <<2365, 2365>>, <<2384, 2384>>,
     <<2392, 2401>>, <<2406, 2415>>, <<2417, 2432>>, <<2437, 2444>>, <<2447, 2448>>,
     <<2451, 2472>>, <<2474, 2480>>, <<2482, 2482>>, <<2486, 2489>>, <<2493, 2493>>,
     <<2510, 2510>>, <<2524, 2525>>, <<2527, 2529>>, <<2534, 2545>>, <<2548, 2553>>,
     <<2556, 2556>>, <<2565, 2570>>, <<2575, 2576>>, <<2579, 2600>>, <<2602, 2608>>,
     <<2610, 2611>>, <<2613, 2614>>, <<2616, 2617>>, <<2649, 2652>>, <<2654, 2654>>,
     <<2662, 2671>>, <<2674, 2676>>, <<2693, 2701>>, <<2703, 2705>>, <<2707, 2728>>,
     <<2730, 2736>>, <<2738, 2739>>, <<2741, 2745>>, <<2749, 2749>>, <<2768, 2768>>,
     <<2784, 2785>>, <<2790, 2799>>, <<2809, 2809>>, <<2821, 2828>>, <<2831, 2832>>,
     <<2835, 2856>>, <<2858, 2864>>, <<2866, 2867>>, <<2869, 2873>>, <<2877, 2877>>,
     <<2908, 2909>>, <<2911, 2913>>, <<2918, 2927>>, <<2929, 2935>>, <<2947, 2947>>,
     <<2949, 2954>>, <<2958, 2960>>, <<2962, 2965>>, <<2969, 2970>>, <<2972, 2972>>,
     <<2974, 2975>>, <<2979, 2980>>, <<2984, 2986>>, <<2990, 3001>>, <<3024, 3024>>,
     <<3046, 3058>>, <<3077, 3084>>, <<3086, 3088>>, <<3090, 3112>>, <<3114, 3129>>,
     <<3133, 3133>>, <<3160, 3162>>, <<3165, 3165>>, <<3168, 3169>>, <<3174, 3183>>,
     <<3192, 3198>>, <<3200, 3200>>, <<3205, 3212>>, <<3214, 3216>>, <<3218, 3240>>,
     <<3242, 3251>>, <<3253, 3257>>, <<3261, 3261>>, <<3293, 3294>>, <<3296, 3297>>,
     <<3302, 3311>>, <<3313, 3314>>, <<3332, 3340>>, <<3342, 3344>>, <<3346, 3386>>,
     <<3389, 3389>>, <<3406, 3406>>, <<3412, 3414>>, <<3416, 3425>>, <<3430, 3448>>,
     <<3450, 3455>>, <<3461, 3478>>, <<3482, 3505>>, <<3507, 3515>>, <<3517, 3517>>,
     <<3520, 3526>>, <<3558, 3567>>, <<3585, 3632>>, <<3634, 3635>>, <<3648, 3654>>,
     <<3664, 3673>>, <<3713, 3714>>, <<3716, 3716>>, <<3718, 3722>>, <<3724, 3747>>,
     <<3749, 3749>>, <<3751, 3760>>, <<3762, 3763>>, <<3773, 3773>>, <<3776, 3780>>,
     <<3782, 3782>>, <<3792, 3801>>, <<3804, 3807>>, <<3840, 3840>>, <<3872, 3891>>,
     <<3904, 3911>>, <<3913, 3948>>, <<3976, 3980>>, <<4096, 4138>>, <<4159, 4169>>,
     <<4176, 4181>>, <<4186, 4189>>, <<4193, 4193>>, <<4197, 4198>>, <<4206, 4208>>,
     <<4213, 4225>>, <<4238, 4238>>, <<4240, 4249>>, <<4256, 4293>>, <<4295, 4295>>,
     <<4301, 4301>>, <<4304, 4346>>, <<4348, 4680>>, <<4682, 4685>>, <<4688, 4694>>,
     <<4696, 4696>>, <<4698, 4701>>, <<4704, 4744>>, <<4746, 4749>>, <<4752, 4784>>,
     <<4786, 4789>>, <<4792, 4798>>, <<4800, 4800>>, <<4802, 4805>>, <<4808, 4822>>,
     <<4824, 4880>>, <<4882, 4885>>, <<4888, 4954>>, <<4969, 4988>>, <<4992, 5007>>,
     <<5024, 5109>>, <<5112, 5117>>, <<5121, 5740>>, <<5743, 5759>>, <<5761, 5786>>,
     <<5792, 5866>>, <<5870, 5880>>, <<5888, 5905>>, <<5919, 5937>>, <<5952, 5969>>,
     <<5984, 5996>>, <<5998, 6000>>, <<6016, 6067>>, <<6103, 6103>>, <<6108, 6108>>,
     <<6112, 6121>>, <<6128, 6137>>, <<6160, 6169>>, <<6176, 6264>>, <<6272, 6276>>,
     <<6279, 6312>>, <<6314, 6314>>, <<6320, 6389>>, <<6400, 6430>>, <<6470, 6509>>,
     <<6512, 6516>>, <<6528, 6571>>, <<6576, 6601>>, <<6608, 6618>>, <<6656, 6678>>,
     <<6688, 6740>>, <<6784, 6793>>, <<6800, 6809>>, <<6823, 6823>>, <<6917, 6963>>,
     <<6981, 6988>>, <<6992, 7001>>, <<7043, 7072>>, <<7086, 7141>>, <<7168, 7203>>,
     <<7232, 7241>>, <<7245, 7293>>, <<7296, 7304>>, <<7312, 7354>>, <<7357, 7359>>,
     <<7401, 7404>>, <<7406, 7411>>, <<7413, 7414>>, <<7418, 7418>>, <<7424, 7615>>,
     <<7680, 7957>>, <<7960, 7965>>, <<7968, 8005>>, <<8008, 8013>>, <<8016, 8023>>,
     <<8025, 8025>>, <<8027, 8027>>, <<8029, 8029>>, <<8031, 8061>>, <<8064, 8116>>,
     <<8118, 8124>>, <<8126, 8126>>, <<8130, 8132>>, <<8134, 8140>>, <<8144, 8147>>,
     <<8150, 8155>>, <<8160, 8172>>, <<8178, 8180>>, <<8182, 8188>>, <<8304, 8305>>,
     <<8308, 8313>>, <<8319, 8329>>, <<8336, 8348>>, <<8450, 8450>>, <<8455, 8455>>,
     <<8458, 8467>>, <<8469, 8469>>, <<8473, 8477>>, <<8484, 8484>>, <<8486, 8486>>,
     <<8488, 8488>>, <<8490, 8493>>, <<8495, 8505>>, <<8508, 8511>>, <<8517, 8521>>,
     <<8526, 8526>>, <<8528, 8585>>, <<9312, 9371>>, <<9450, 9471>>, <<10102, 10131>>,
     <<11264, 11492>>, <<11499, 11502>>, <<11506, 11507>>, <<11517, 11517>>, <<11520, 11557>>,
     <<11559, 11559>>, <<11565, 11565>>, <<11568, 11623>>, <<11631, 11631>>, <<11648, 11670>>,
     <<11680, 11686>>, <<11688, 11694>>, <<11696, 11702>>, <<11704, 11710>>, <<11712, 11718>>,
     <<11720, 11726>>, <<11728, 11734>>, <<11736, 11742>>, <<11823, 11823>>, <<12293, 12295>>,
     <<12321, 12329>>, <<12337, 12341>>, <<12344, 12348>>, <<12353, 12438>>, <<12445, 12447>>,
     <<12449, 12538>>, <<12540, 12543>>, <<12549, 12591>>, <<12593, 12686>>, <<12690, 12693>>,
     <<12704, 12735>>, <<12784, 12799>>, <<12832, 12841>>, <<12872, 12879>>, <<12881, 12895>>,
     <<12928, 12937>>, <<12977, 12991>>, <<13312, 19903>>, <<19968, 42124>>, <<42192, 42237>>,
     <<42240, 42508>>, <<42512, 42539>>, <<42560, 42606>>, <<42623, 42653>>, <<42656, 42735>>,
     <<42775, 42783>>, <<42786, 42888>>, <<42891, 42954>>, <<42960, 42961>>, <<42963, 42963>>,
     <<42965, 42969>>, <<42994, 43009>>, <<43011, 43013>>, <<43015, 43018>>, <<43020, 43042>>,
     <<43056, 43061>>, <<43072, 43123>>, <<43138, 43187>>, <<43216, 43225>>, <<43250, 43255>>,
     <<43259, 43259>>, <<43261, 43262>>, <<43264, 43301>>, <<43312, 43334>>, <<43360, 43388>>,
     <<43396, 43442>>, <<43471, 43481>>, <<43488, 43492>>, <<43494, 43518>>, <<43520, 43560>>,
     <<43584, 43586>>, <<43588, 43595>>, <<43600, 43609>>, <<43616, 43638>>, <<43642, 43642>>,
     <<43646, 43695>>, <<43697, 43697>>, <<43701, 43702>>, <<43705, 43709>>, <<43712, 43712>>,
     <<43714, 43714>>, <<43739, 43741>>, <<43744, 43754>>, <<43762, 43764>>, <<43777, 43782>>,
     <<43785, 43790>>, <<43793, 43798>>, <<43808, 43814>>, <<43816, 43822>>, <<43824, 43866>>,
     <<43868, 43881>>, <<43888, 44002>>, <<44016, 44025>>, <<44032, 55203>>, <<55216, 55238>>,
     <<55243, 55291>>, <<63744, 64109>>, <<64112, 64217>>, <<64256, 64262>>, <<64275, 64279>>,
     <<64285, 64285>>, <<64287, 64296>>, <<64298, 64310>>, <<64312, 64316>>, <<64318, 64318>>,
     <<64320, 64321>>, <<64323, 64324>>, <<64326, 64433>>, <<64467, 64829>>, <<64848, 64911>>,
     <<64914, 64967>>, <<65008, 65019>>, <<65136, 65140>>, <<65142, 65276>>, <<65296, 65305>>,
     <<65313, 65338>>, <<65345, 65370>>, <<65382, 65470>>, <<65474, 65479>>, <<65482, 65487>>,
     <<65490, 65495>>, <<65498, 65500>>, <<65536, 65547>>, <<65549, 65574>>, <<65576, 65594>>,
     <<65596, 65597>>, <<65599, 65613>>, <<65616, 65629>>, <<65664, 65786>>, <<65799, 65843>>,
     <<65856, 65912>>, <<65930, 65931>>, <<66176, 66204>>, <<66208, 66256>>, <<66273, 66299>>,
     <<66304, 66339>>, <<66349, 66378>>, <<66384, 66421>>, <<66432, 66461>>, <<66464, 66499>>,
     <<66504, 66511>>, <<66513, 66517>>, <<66560, 66717>>, <<66720, 66729>>, <<66736, 66771>>,
     <<66776, 66811>>, <<66816, 66855>>, <<66864, 66915>>, <<66928, 66938>>, <<66940, 66954>>,
     <<66956, 66962>>, <<66964, 66965>>, <<66967, 66977>>, <<66979, 66993>>, <<66995, 67001>>,
     <<67003, 67004>>, <<67072, 67382>>, <<67392, 67413>>, <<67424, 67431>>, <<67456, 67461>>,
     <<67463, 67504>>, <<67506, 67514>>, <<67584, 67589>>, <<67592, 67592>>, <<67594, 67637>>,
     <<67639, 67640>>, <<67644, 67644>>, <<67647, 67669>>, <<67672, 67702>>, <<67705, 67742>>,
     <<67751, 67759>>, <<67808, 67826>>, <<67828, 67829>>, <<67835, 67867>>, <<67872, 67897>>,
     <<67968, 68023>>, <<68028, 68047>>, <<68050, 68096>>, <<68112, 68115>>, <<68117, 68119>>,
     <<68121, 68149>>, <<68160, 68168>>, <<68192, 68222>>, <<68224, 68255>>, <<68288, 68295>>,
     <<68297, 68324>>, <<68331, 68335>>, <<68352, 68405>>, <<68416, 68437>>, <<68440, 68466>>,
     <<68472, 68497>>, <<68521, 68527>>, <<68608, 68680>>, <<68736, 68786>>, <<68800, 68850>>,
     <<68858, 68899>>, <<68912, 68921>>, <<69216, 69246>>, <<69248, 69289>>, <<69296, 69297>>,
     <<69376, 69415>>, <<69424, 69445>>, <<69457, 69460>>, <<69488, 69505>>, <<69552, 69579>>,
     <<69600, 69622>>, <<69635, 69687>>, <<69714, 69743>>, <<69745, 69746>>, <<69749, 69749>>,
     <<69763, 69807>>, <<69840, 69864>>, <<69872, 69881>>, <<69891, 69926>>, <<69942, 69951>>,
     <<69956, 69956>>, <<69959, 69959>>, <<69968, 70002>>, <<70006, 70006>>, <<70019, 70066>>,
     <<70081, 70084>>, <<70096, 70106>>, <<70108, 70108>>, <<70113, 70132>>, <<70144, 70161>>,
     <<70163, 70187>>, <<70272, 70278>>, <<70280, 70280>>, <<70282, 70285>>, <<70287, 70301>>,
     <<70303, 70312>>, <<70320, 70366>>, <<70384, 70393>>, <<70405, 70412>>, <<70415, 70416>>,
     <<70419, 70440>>, <<70442, 70448>>, <<70450, 70451>>, <<70453, 70457>>, <<70461, 70461>>,
     <<70480, 70480>>, <<70493, 70497>>, <<70656, 70708>>, <<70727, 70730>>, <<70736, 70745>>,
     <<70751, 70753>>, <<70784, 70831>>, <<70852, 70853>>, <<70855, 70855>>, <<70864, 70873>>,
     <<71040, 71086>>, <<71128, 71131>>, <<71168, 71215>>, <<71236, 71236>>, <<71248, 71257>>,
     <<71296, 71338>>, <<71352, 71352>>, <<71360, 71369>>, <<71424, 71450>>, <<71472, 71483>>,
     <<71488, 71494>>, <<71680, 71723>>, <<71840, 71922>>, <<71935, 71942>>, <<71945, 71945>>,
     <<71948, 71955>>, <<71957, 71958>>, <<71960, 71983>>, <<71999, 71999>>, <<72001, 72001>>,
     <<72016, 72025>>, <<72096, 72103>>, <<72106, 72144>>, <<72161, 72161>>, <<72163, 72163>>,
     <<72192, 72192>>, <<72203, 72242>>, <<72250, 72250>>, <<72272, 72272>>, <<72284, 72329>>,
     <<72349, 72349>>, <<72368, 72440>>, <<72704, 72712>>, <<72714, 72750>>, <<72768, 72768>>,
     <<72784, 72812>>, <<72818, 72847>>, <<72960, 72966>>, <<72968, 72969>>, <<72971, 73008>>,
     <<73030, 73030>>, <<73040, 73049>>, <<73056, 73061>>, <<73063, 73064>>, <<73066, 73097>>,
     <<73112, 73112>>, <<73120, 73129>>, <<73440, 73458>>, <<73648, 73648>>, <<73664, 73684>>,
     <<73728, 74649>>, <<74752, 74862>>, <<74880, 75075>>, <<77712, 77808>>, <<77824, 78894>>,
     <<82944, 83526>>, <<92160, 92728>>, <<92736, 92766>>, <<92768, 92777>>, <<92784, 92862>>,
     <<92864, 92873>>, <<92880, 92909>>, <<92928, 92975>>, <<92992, 92995>>, <<93008, 93017>>,
     <<93019, 93025>>, <<93027, 93047>>, <<93053, 93071>>, <<93760, 93846>>, <<93952, 94026>>,
     <<94032, 94032>>, <<94099, 94111>>, <<94176, 94177>>, <<94179, 94179>>, <<94208, 100343>>,
     <<100352, 101589>>, <<101632, 101640>>, <<110576, 110579>>, <<110581, 110587>>, <<110589, 110590>>,
     <<110592, 110882>>, <<110928, 110930>>, <<110948, 110951>>, <<110960, 111355>>, <<113664, 113770>>,
     <<113776, 113788>>, <<113792, 113800>>, <<113808, 113817>>, <<119520, 119539>>, <<119648, 119672>>,
     <<119808, 119892>>, <<119894, 119964>>, <<119966, 119967>>, <<119970, 119970>>, <<119973, 119974>>,
     <<119977, 119980>>, <<119982, 119993>>, <<119995, 119995>>, <<119997, 120003>>, <<120005, 120069>>,
     <<120071, 120074>>, <<120077, 120084>>, <<120086, 120092>>, <<120094, 120121>>, <<120123, 120126>>,
     <<120128, 120132>>, <<120134, 120134>>, <<120138, 120144>>, <<120146, 120485>>, <<120488, 120512>>,
     <<120514, 120538>>, <<120540, 120570>>, <<120572, 120596>>, <<120598, 120628>>, <<120630, 120654>>,
     <<120656, 120686>>, <<120688, 120712>>, <<120714, 120744>>, <<120746, 120770>>, <<120772, 120779>>,
     <<120782, 120831>>, <<122624, 122654>>, <<123136, 123180>>, <<123191, 123197>>, <<123200, 123209>>,
     <<123214, 123214>>, <<123536, 123565>>, <<123584, 123627>>, <<123632, 123641>>, <<124896, 124902>>,
     <<124904, 124907>>, <<124909, 124910>>, <<124912, 124926>>, <<124928, 125124>>, <<125127, 125135>>,
     <<125184, 125251>>, <<125259, 125259>>, <<125264, 125273>>, <<126065, 126123>>, <<126125, 126127>>,
     <<126129, 126132>>, <<126209, 126253>>, <<126255, 126269>>, <<126464, 126467>>, <<126469, 126495>>,
     <<126497, 126498>>, <<126500, 126500>>, <<126503, 126503>>, <<126505, 126514>>, <<126516, 126519>>,
     <<126521, 126521>>, <<126523, 126523>>, <<126530, 126530>>, <<126535, 126535>>, <<126537, 126537>>,
     <<126539, 126539>>, <<126541, 126543>>, <<126545, 126546>>, <<126548, 126548>>, <<126551, 126551>>,
     <<126553, 126553>>, <<126555, 126555>>, <<126557, 126557>>, <<126559, 126559>>, <<126561, 126562>>,
     <<126564, 126564>>, <<126567, 126570>>, <<126572, 126578>>, <<126580, 126583>>, <<126585, 126588>>,
     <<126590, 126590>>, <<126592, 126601>>, <<126603, 126619>>, <<126625, 126627>>, <<126629, 126633>>,
     <<126635, 126651>>, <<127232, 127244>>, <<130032, 130041>>, <<131072, 173791>>, <<173824, 177976>>,
     <<177984, 178205>>, <<178208, 183969>>, <<183984, 191456>>, <<194560, 195101>>, <<196608, 201546>>}

\* \w of a str pattern: the alphanumeric characters and the underscore.
IsWordChar(c) ==
    IF Len(c) = 1
    THEN c \in DOMAIN UpperOf \/ c \in UpperLetters \/ c \in Digits \/ c = "_"
    ELSE \E r \in WordRanges : r[1] <= CodePoint(c) /\ CodePoint(c) <= r[2]

\* s[a:b] (0-based, end-exclusive) for 0 <= a, clamped to the text.
Slice(s, a, b) == SubSeq(s, a + 1, Min(b, Len(s)))

\* s.count(c)
Count(s, c) == Cardinality({i \in 1..Len(s) : s[i] = c})

\* s.startswith(prefix)
StartsWith(s, prefix) ==
    /\ Len(prefix) <= Len(s)
    /\ \A i \in 1..Len(prefix) : s[i] = prefix[i]

\* s.lstrip()
LStrip(s) ==
    IF \A i \in 1..Len(s) : IsSpace(s[i]) THEN <<>>
    ELSE LET first == CHOOSE i \in 1..Len(s) :
                         /\ ~IsSpace(s[i])
                         /\ \A j \in 1..(i - 1) : IsSpace(s[j])
         IN  SubSeq(s, first, Len(s))

\* s.rstrip()
RStrip(s) ==
    IF \A i \in 1..Len(s) : IsSpace(s[i]) THEN <<>>
    ELSE LET last == CHOOSE i \in 1..Len(s) :
                        /\ ~IsSpace(s[i])
                        /\ \A j \in (i + 1)..Len(s) : IsSpace(s[j])
         IN  SubSeq(s, 1, last)

\* s.strip()
Strip(s) == RStrip(LStrip(s))

\* s.split(sep) for a one-character separator: always at least one part.
RECURSIVE SplitOn(_, _)
SplitOn(s, sep) ==
    IF \A i \in 1..Len(s) : s[i] # sep THEN <<s>>
    ELSE LET at == CHOOSE i \in 1..Len(s) :
                       /\ s[i] = sep
                       /\ \A j \in 1..(i - 1) : s[j] # sep
         IN  <<SubSeq(s, 1, at - 1)>> \o SplitOn(SubSeq(s, at + 1, Len(s)), sep)

\* s.split(): the maximal runs of non-whitespace characters.
RECURSIVE SplitWords(_)
SplitWords(s) ==
    LET t == LStrip(s)
    IN  IF t = <<>> THEN <<>>
        ELSE IF \A i \in 1..Len(t) : ~IsSpace(t[i]) THEN <<t>>
        ELSE LET sp == CHOOSE i \in 1..Len(t) :
                           /\ IsSpace(t[i])
                           /\ \A j \in 1..(i - 1) : ~IsSpace(t[j])
             IN  <<SubSeq(t, 1, sp - 1)>> \o SplitWords(SubSeq(t, sp + 1, Len(t)))

\* sep.join(parts)
RECURSIVE Join(_, _)
Join(sep, parts) ==
    IF parts = <<>> THEN <<>>
    ELSE IF Len(parts) = 1 THEN parts[1]
    ELSE parts[1] \o sep \o Join(sep, Tail(parts))

-----------------------------------------------------------------------------
(* Regular expressions: re.search(pattern, text, re.IGNORECASE)            *)
(*                                                                         *)
(* A pattern is a sequence of elements; Ends gives every offset at which   *)
(* a match of the pattern that starts at an offset of `from` can end,      *)
(* which is what a backtracking matcher explores.                          *)

Lit(w)    == [t |-> "lit", w |-> w]       \* literal text, letters in upper case
WordB     == [t |-> "b"]                  \* \b
Spaces    == [t |-> "s+"]                 \* \s+
NonSpaces == [t |-> "S+"]                 \* \S+
NotSemis  == [t |-> "[^;]*"]              \* [^;]*
Opt(r)    == [t |-> "opt", r |-> r]       \* (?:r)?
NotAhead(r) == [t |-> "nla", r |-> r]     \* (?!r)

\* Whether `w` stands at offset p of s, letter case ignored.
LitAt(s, p, w) ==
    /\ p + Len(w) <= Len(s)
    /\ \A k \in 1..Len(w) : ToUpper(s[p + k]) = w[k]

\* \b at offset p: exactly one of the characters around p is a word character.
WordBoundaryAt(s, p) ==
    LET before == p >= 1 /\ IsWordChar(s[p])
        after  == p < Len(s) /\ IsWordChar(s[p + 1])
    IN  before # after

\* The longest run from offset p of characters satisfying the class.
RECURSIVE RunEnd(_, _, _)
RunEnd(s, p, cls) ==
    IF p < Len(s) /\ ( \/ cls = "s" /\ IsSpace(s[p + 1])
                       \/ cls = "S" /\ ~IsSpace(s[p + 1])
                       \/ cls = "^;" /\ s[p + 1] # ";" )
    THEN RunEnd(s, p + 1, cls)
    ELSE p

RECURSIVE Ends(_, _, _)
RECURSIVE StepAt(_, _, _)

StepAt(e, s, p) ==
    CASE e.t = "lit"   -> IF LitAt(s, p, e.w) THEN {p + Len(e.w)} ELSE {}
      [] e.t = "b"     -> IF WordBoundaryAt(s, p) THEN {p} ELSE {}
      [] e.t = "s+"    -> (p + 1)..RunEnd(s, p, "s")
      [] e.t = "S+"    -> (p + 1)..RunEnd(s, p, "S")
      [] e.t = "[^;]*" -> p..RunEnd(s, p, "^;")
      [] e.t = "opt"   -> {p} \cup Ends(e.r, s, {p})
      [] e.t = "nla"   -> IF Ends(e.r, s, {p}) = {} THEN {p} ELSE {}

Ends(re, s, from) ==
    IF re = <<>> \/ from = {} THEN from
    ELSE Ends(Tail(re), s, UNION {StepAt(Head(re), s, p) : p \in from})

\* re.search(pattern, s, re.IGNORECASE) is not None
Search(re, s) == \E p \in 0..Len(s) : Ends(re, s, {p}) # {}

-----------------------------------------------------------------------------
(* The rule catalog                                                        *)

K_DROP == <<"D", "R", "O", "P">>
K_TABLE == <<"T", "A", "B", "L", "E">>
K_ALTER == <<"A", "L", "T", "E", "R">>
K_COLUMN == <<"C", "O", "L", "U", "M", "N">>
K_RENAME == <<"R", "E", "N", "A", "M", "E">>
K_ADD == <<"A", "D", "D">>
K_NOT == <<"N", "O", "T">>
K_NULL == <<"N", "U", "L", "L">>
K_DEFAULT == <<"D", "E", "F", "A", "U", "L", "T">>
K_CREATE == <<"C", "R", "E", "A", "T", "E">>
K_UNIQUE == <<"U", "N", "I", "Q", "U", "E">>
K_INDEX == <<"I", "N", "D", "E", "X">>
K_CONCURRENTLY == <<"C", "O", "N", "C", "U", "R", "R", "E", "N", "T", "L", "Y">>
K_CONSTRAINT == <<"C", "O", "N", "S", "T", "R", "A", "I", "N", "T">>
K_FOREIGN == <<"F", "O", "R", "E", "I", "G", "N">>
K_KEY == <<"K", "E", "Y">>
K_VALID == <<"V", "A", "L", "I", "D">>
K_SET == <<"S", "E", "T">>
K_DATA == <<"D", "A", "T", "A">>
K_TYPE == <<"T", "Y", "P", "E">>

SEVERITY_WEIGHT == [critical |-> 4, high |-> 3, medium |-> 2, low |-> 1]

\* \bALTER\s+TABLE\s+\S+\s+ : the common head of five patterns.
AlterTableHead ==
    <<WordB, Lit(K_ALTER), Spaces, Lit(K_TABLE), Spaces, NonSpaces, Spaces>>

\* ALTER\s+COLUMN\s+\S+\s+
AlterColumnHead == <<Lit(K_ALTER), Spaces, Lit(K_COLUMN), Spaces, NonSpaces, Spaces>>

P_BAN001 == <<WordB, Lit(K_DROP), Spaces, Lit(K_TABLE), WordB>>
P_BAN002 == AlterTableHead \o <<Lit(K_DROP), Spaces, Lit(K_COLUMN), WordB>>
P_BAN003 == AlterTableHead \o <<Lit(K_RENAME), WordB>>
\* LCK001 looking for DEFAULT only right after NOT NULL.
P_LCK001_NextWord ==
    <<WordB, Lit(K_ADD), Spaces, Opt(<<Lit(K_COLUMN), Spaces>>),
      NonSpaces, Spaces, NonSpaces, NotSemis,
      WordB, Lit(K_NOT), Spaces, Lit(K_NULL), WordB,
      NotAhead(<<Spaces, Lit(K_DEFAULT), WordB>>)>>

P_LCK001 ==
    <<WordB, Lit(K_ADD), Spaces, Opt(<<Lit(K_COLUMN), Spaces>>),
      NonSpaces, Spaces, NonSpaces, NotSemis,
      WordB, Lit(K_NOT), Spaces, Lit(K_NULL), WordB,
      NotAhead(<<NotSemis, WordB, Lit(K_DEFAULT), WordB>>)>>
P_LCK002 ==
    <<WordB, Lit(K_CREATE), Spaces, Opt(<<Lit(K_UNIQUE), Spaces>>),
      Lit(K_INDEX), Spaces, NotAhead(<<Lit(K_CONCURRENTLY), WordB>>)>>
P_LCK003 ==
    <<WordB, Lit(K_ADD), Spaces,
      Opt(<<Lit(K_CONSTRAINT), Spaces, NonSpaces, Spaces>>),
      Lit(K_FOREIGN), Spaces, Lit(K_KEY), WordB,
      NotAhead(<<NotSemis, WordB, Lit(K_NOT), Spaces, Lit(K_VALID), WordB>>)>>
P_LCK004 ==
    AlterTableHead \o AlterColumnHead \o
    <<Opt(<<Lit(K_SET), Spaces, Lit(K_DATA), Spaces>>), Lit(K_TYPE), WordB>>
P_LCK005 ==
    AlterTableHead \o AlterColumnHead \o
    <<Lit(K_SET), Spaces, Lit(K_NOT), Spaces, Lit(K_NULL), WordB>>

Rule(id, pattern, severity, message, lock_type, base) ==
    [id |-> id, pattern |-> pattern, severity |-> severity, message |-> message,
     lock_type |-> lock_type, base |-> base]

RULES == <<
    Rule("BAN001", P_BAN001, "critical",
         "DROP TABLE permanently deletes data and all indexes",
         "ACCESS EXCLUSIVE", Some(10)),
    Rule("BAN002", P_BAN002, "high",
         "DROP COLUMN is irreversible and may break running queries",
         "ACCESS EXCLUSIVE", Some(50)),
    Rule("BAN003", P_BAN003, "medium",
         "Renaming table/column will break application queries",
         "ACCESS EXCLUSIVE", Some(5)),
    Rule("LCK001", P_LCK001, "critical",
         "Adding NOT NULL column without DEFAULT rewrites entire table under lock",
         "ACCESS EXCLUSIVE", None),
    Rule("LCK002", P_LCK002, "high",
         "CREATE INDEX without CONCURRENTLY blocks all writes",
         "SHARE", None),
    Rule("LCK003", P_LCK003, "high",
         "Adding FK without NOT VALID scans entire table under lock",
         "SHARE ROW EXCLUSIVE", None),
    Rule("LCK004", P_LCK004, "critical",
         "Changing column type rewrites the entire table under ACCESS EXCLUSIVE lock",
         "ACCESS EXCLUSIVE", None),
    Rule("LCK005", P_LCK005, "high",
         "SET NOT NULL scans full table; use CHECK constraint + NOT VALID instead",
         "ACCESS EXCLUSIVE", None) >>

-----------------------------------------------------------------------------
(* The engine                                                              *)

\* `x or d` for an Optional[int] x: d when x is None or 0.
OrElse(x, d) == IF x = None \/ x[1] = 0 THEN d ELSE x[1]

\* estimate_lock_ms taking a hint of 0 rows for a hint.
estimate_lock_ms_ZeroRows(base, rws) ==
    IF rws < 0 THEN base
    ELSE Some(Max(OrElse(base, 1), (rws \div 10000) + OrElse(base, 0)))

\* estimate_lock_ms without its floor of 1.
estimate_lock_ms_NoFloor(base, rws) ==
    IF rws <= 0 THEN base
    ELSE Some((rws \div 10000) + OrElse(base, 0))

estimate_lock_ms(base, rws) ==
    IF rws <= 0 THEN base
    ELSE Some(Max(OrElse(base, 1), (rws \div 10000) + OrElse(base, 0)))

\* SplitLoop with the separator left out of the offset.
RECURSIVE SplitLoop_NoSeparator(_, _, _, _)
SplitLoop_NoSeparator(text, parts, k, offset) ==
    IF k > Len(parts) THEN <<>>
    ELSE LET part == parts[k]
             body == Strip(part)
             yielded ==
                 IF body # <<>> /\ ~StartsWith(LStrip(body), <<"-", "-">>)
                 THEN << <<Join(<<" ">>, SplitWords(body)),
                           Count(Slice(text, 0, offset), "\n") + 1>> >>
                 ELSE <<>>
         IN  yielded \o SplitLoop_NoSeparator(text, parts, k + 1, offset + Len(part))

\* The body of _split_statements' loop from part k on, `offset` being the
\* offset in `text` at which part k starts; the pairs it yields, in order.
RECURSIVE SplitLoop(_, _, _, _)
SplitLoop(text, parts, k, offset) ==
    IF k > Len(parts) THEN <<>>
    ELSE LET part == parts[k]
             body == Strip(part)
             yielded ==
                 IF body # <<>> /\ ~StartsWith(LStrip(body), <<"-", "-">>)
                 THEN << <<Join(<<" ">>, SplitWords(body)),
                           Count(Slice(text, 0, offset), "\n") + 1>> >>
                 ELSE <<>>
         IN  yielded \o SplitLoop(text, parts, k + 1, offset + Len(part) + 1)

_split_statements(text) == SplitLoop(text, SplitOn(text, ";"), 1, 0)

SnippetLen == 120

Finding(rule, stmt, line, rws) ==
    [rule_id |-> rule.id, severity |-> rule.severity, message |-> rule.message,
     line |-> line, sql |-> Slice(stmt, 0, SnippetLen), lock_type |-> rule.lock_type,
     lock_ms |-> estimate_lock_ms(rule.base, rws)]

\* RuleLoop stopping at the statement's first match.
RECURSIVE RuleLoop_FirstMatch(_, _, _, _, _)
RuleLoop_FirstMatch(rules, k, stmt, line, rws) ==
    IF k > Len(rules) THEN <<>>
    ELSE IF Search(rules[k].pattern, stmt)
         THEN <<Finding(rules[k], stmt, line, rws)>>
         ELSE RuleLoop_FirstMatch(rules, k + 1, stmt, line, rws)

\* analyze's inner loop, from rule k of the catalog on, for one statement.
RECURSIVE RuleLoop(_, _, _, _, _)
RuleLoop(rules, k, stmt, line, rws) ==
    IF k > Len(rules) THEN <<>>
    ELSE (IF Search(rules[k].pattern, stmt)
          THEN <<Finding(rules[k], stmt, line, rws)>>
          ELSE <<>>)
         \o RuleLoop(rules, k + 1, stmt, line, rws)

\* analyze's outer loop, from yielded pair i on.
RECURSIVE StatementLoop(_, _, _)
StatementLoop(pairs, i, rws) ==
    IF i > Len(pairs) THEN <<>>
    ELSE RuleLoop(catalog, 1, pairs[i][1], pairs[i][2], rws)
         \o StatementLoop(pairs, i + 1, rws)

analyze(text, rws) == StatementLoop(_split_statements(text), 1, rws)

\* SEVERITY_WEIGHT.get(severity, 1)
WeightOf(severity) ==
    IF severity \in DOMAIN SEVERITY_WEIGHT THEN SEVERITY_WEIGHT[severity] ELSE 1

RECURSIVE SumWeights(_)
SumWeights(fs) ==
    IF fs = <<>> THEN 0 ELSE WeightOf(fs[1].severity) * 25 + SumWeights(Tail(fs))

\* risk_score without its clamp.
risk_score_Unclamped(fs) == SumWeights(fs)

risk_score(fs) == Min(100, SumWeights(fs))

-----------------------------------------------------------------------------
(* The lint command                                                        *)

SEV_RANK == [low |-> 1, medium |-> 2, high |-> 3, critical |-> 4]

Sp == <<" ">>
Nl == <<"\n">>
Semi == <<";">>
T_t == <<"t">>
T_c == <<"c">>

\* The statements the files and scripts of the model are made of.
S_DropTable   == K_DROP \o Sp \o K_TABLE \o Sp \o T_t
S_DropColumn  == K_ALTER \o Sp \o K_TABLE \o Sp \o T_t \o Sp \o K_DROP \o Sp \o K_COLUMN \o Sp \o T_c
S_Rename      == K_ALTER \o Sp \o K_TABLE \o Sp \o T_t \o Sp \o K_RENAME \o Sp \o T_c
S_CreateTable == K_CREATE \o Sp \o K_TABLE \o Sp \o T_t \o Sp \o <<"(", "c", ")">>

\* The file system lint runs on: two files, a directory with two .sql files
\* below it, a directory without any, and a path that does not exist.
FileText ==
    [p \in {"drop.sql", "rename.sql", "migrations/001.sql", "migrations/sub/002.sql"} |->
        CASE p = "drop.sql"               -> S_DropTable \o Semi \o Nl
          [] p = "rename.sql"             -> S_Rename \o Semi
          [] p = "migrations/001.sql"     -> S_CreateTable \o Semi \o Nl \o S_DropColumn \o Semi
          [] p = "migrations/sub/002.sql" -> S_CreateTable \o Semi]

\* sorted(path.glob("**/*.sql")) of each directory
DirSqlFiles ==
    [p \in {"migrations", "empty"} |->
        IF p = "migrations" THEN <<"migrations/001.sql", "migrations/sub/002.sql">>
        ELSE <<>>]

PathArgs == {"drop.sql", "rename.sql", "migrations", "empty", "missing"}

\* _collect_sql_files from argument k on: the files, or found = FALSE when an
\* argument is neither a directory nor a file (typer.Exit(1)).
RECURSIVE CollectLoop(_, _, _)
CollectLoop(ps, k, files) ==
    IF k > Len(ps) THEN [found |-> TRUE, files |-> files]
    ELSE IF ps[k] \in DOMAIN DirSqlFiles
         THEN CollectLoop(ps, k + 1, files \o DirSqlFiles[ps[k]])
    ELSE IF ps[k] \in DOMAIN FileText
         THEN CollectLoop(ps, k + 1, Append(files, ps[k]))
    ELSE [found |-> FALSE, files |-> files]

_collect_sql_files(ps) == CollectLoop(ps, 1, <<>>)

\* d[key] = value for a dict kept as the sequence of its (key, value) pairs in
\* insertion order.
DictSet(d, key, value) ==
    IF \E i \in 1..Len(d) : d[i][1] = key
    THEN [i \in 1..Len(d) |-> IF d[i][1] = key THEN <<key, value>> ELSE d[i]]
    ELSE Append(d, <<key, value>>)

\* lint's loop over the collected files, from file k on.
RECURSIVE AnalyzeFiles(_, _, _, _)
AnalyzeFiles(files, k, rws, acc) ==
    IF k > Len(files) THEN acc
    ELSE AnalyzeFiles(files, k + 1, rws,
                      DictSet(acc, files[k], analyze(FileText[files[k]], rws)))

\* The JSON document: per file, each finding without its sql snippet.
JsonData(af) ==
    [i \in 1..Len(af) |->
        <<af[i][1],
          [j \in 1..Len(af[i][2]) |->
              LET f == af[i][2][j]
              IN  [rule_id |-> f.rule_id, severity |-> f.severity,
                   message |-> f.message, line |-> f.line,
                   lock_type |-> f.lock_type, lock_ms |-> f.lock_ms]]>>]

RECURSIVE SarifResults(_, _)
SarifResults(af, i) ==
    IF i > Len(af) THEN <<>>
    ELSE [j \in 1..Len(af[i][2]) |->
              LET f == af[i][2][j]
              IN  [ruleId |-> f.rule_id,
                   level |-> IF f.severity \in {"critical", "high"}
                             THEN "error" ELSE "warning",
                   message |-> f.message, uri |-> af[i][1], startLine |-> f.line]]
         \o SarifResults(af, i + 1)

_to_sarif(af) ==
    [version |-> "2.1.0", name |-> "MigSafe", results |-> SarifResults(af, 1)]

SEV_COLORS ==
    [s \in {"critical", "high", "medium", "low"} |->
        CASE s = "critical" -> "red bold" [] s = "high" -> "red"
          [] s = "medium" -> "yellow" [] s = "low" -> "cyan"]

\* _render_table: what it prints for one file, and the exception it raises. The
\* table is printed after its rows are built, so a severity that SEV_COLORS does
\* not hold raises KeyError with nothing printed.
_render_table(fs, filepath) ==
    IF fs = <<>>
    THEN [out |-> <<[file |-> filepath, table |-> <<>>, risk |-> None]>>,
          raised |-> None]
    ELSE IF \E j \in 1..Len(fs) : fs[j].severity \notin DOMAIN SEV_COLORS
    THEN [out |-> <<>>, raised |-> Some("KeyError")]
    ELSE [out |-> <<[file |-> filepath,
                     table |-> [j \in 1..Len(fs) |->
                                   <<fs[j].rule_id,
                                     <<SEV_COLORS[fs[j].severity], fs[j].severity>>,
                                     fs[j].lock_type, fs[j].lock_ms, fs[j].message>>],
                     risk |-> Some(risk_score(fs))]>>,
          raised |-> None]

\* lint's loop over all_findings.items() in the text format, from entry i on: it
\* ends at the first file whose table raises.
RECURSIVE RenderTables(_, _)
RenderTables(af, i) ==
    IF i > Len(af) THEN [out |-> <<>>, raised |-> None]
    ELSE LET one == _render_table(af[i][2], af[i][1])
         IN  IF one.raised # None THEN one
             ELSE LET rest == RenderTables(af, i + 1)
                  IN  [out |-> one.out \o rest.out, raised |-> rest.raised]

\* What lint prints in the chosen format, and the exception that ends it.
Render(format, af) ==
    IF format = "json" THEN [out |-> <<JsonData(af)>>, raised |-> None]
    ELSE IF format = "sarif" THEN [out |-> <<_to_sarif(af)>>, raised |-> None]
    ELSE RenderTables(af, 1)

\* SEV_RANK.get(fail_on, 3)
Threshold(fo) == IF fo \in DOMAIN SEV_RANK THEN SEV_RANK[fo] ELSE 3

\* SEV_RANK.get(severity, 0)
RankOf(severity) == IF severity \in DOMAIN SEV_RANK THEN SEV_RANK[severity] ELSE 0

\* Failed asking for a rank above the threshold.
Failed_Above(af, fo) ==
    \E i \in 1..Len(af) : \E j \in 1..Len(af[i][2]) :
        RankOf(af[i][2][j].severity) > Threshold(fo)

Failed(af, fo) ==
    \E i \in 1..Len(af) : \E j \in 1..Len(af[i][2]) :
        RankOf(af[i][2][j].severity) >= Threshold(fo)

-----------------------------------------------------------------------------
(* The operations                                                          *)

MaxCalls == 2

\* _split_statements(sql), consumed to its end
SplitStatements ==
    /\ pc = "ready"
    /\ stmts' = _split_statements(sql)
    /\ pc' = "done"
    /\ UNCHANGED <<sql, rows, findings, previous, extra, score, prev_score, base_ms,
                   lock_ms, paths, fmt, fail_on, all_findings, printed, exit_code,
                   catalog, calls>>

\* findings = analyze(sql, rows); the caller keeps the list of the call before
Analyze ==
    /\ pc = "ready"
    /\ calls < MaxCalls
    /\ findings' = analyze(sql, rows)
    /\ previous' = findings
    /\ prev_score' = score
    /\ calls' = calls + 1
    /\ pc' = "analyzed"
    /\ UNCHANGED <<sql, rows, stmts, extra, score, base_ms, lock_ms, paths, fmt,
                   fail_on, all_findings, printed, exit_code, catalog>>

\* score = risk_score(findings)
RiskScore ==
    /\ pc = "analyzed"
    /\ score' = risk_score(findings)
    /\ pc' = "scored"
    /\ UNCHANGED <<sql, rows, stmts, findings, previous, extra, prev_score, base_ms,
                   lock_ms, paths, fmt, fail_on, all_findings, printed, exit_code,
                   catalog, calls>>

\* The caller appends `extra` to the script (nothing, when it repeats the call on
\* the same input) and goes on to the next call.
Extend ==
    /\ pc = "scored"
    /\ calls < MaxCalls
    /\ sql' = sql \o extra
    /\ pc' = "ready"
    /\ UNCHANGED <<rows, stmts, findings, previous, extra, score, prev_score, base_ms,
                   lock_ms, paths, fmt, fail_on, all_findings, printed, exit_code,
                   catalog, calls>>

\* lock_ms = estimate_lock_ms(base_ms, rows)
EstimateLockMs ==
    /\ pc = "ready"
    /\ lock_ms' = estimate_lock_ms(base_ms, rows)
    /\ pc' = "done"
    /\ UNCHANGED <<sql, rows, stmts, findings, previous, extra, score, prev_score,
                   base_ms, paths, fmt, fail_on, all_findings, printed, exit_code,
                   catalog, calls>>

\* migsafe lint PATHS --rows ROWS --format FMT --fail-on FAIL_ON
Lint ==
    /\ pc = "ready"
    /\ LET collected == _collect_sql_files(paths)
           af == AnalyzeFiles(collected.files, 1, rows, <<>>)
       IN  IF ~collected.found
           THEN /\ exit_code' = Some(1)
                /\ UNCHANGED <<all_findings, printed>>
           ELSE IF collected.files = <<>>
           THEN /\ exit_code' = Some(0)
                /\ UNCHANGED <<all_findings, printed>>
           ELSE LET rendered == Render(fmt, af)
                IN  /\ all_findings' = af
                    /\ printed' = rendered.out
                    /\ exit_code' = Some(IF rendered.raised # None THEN 1
                                         ELSE IF Failed(af, fail_on) THEN 1 ELSE 0)
    /\ pc' = "exited"
    /\ UNCHANGED <<sql, rows, stmts, findings, previous, extra, score, prev_score,
                   base_ms, lock_ms, paths, fmt, fail_on, catalog, calls>>

-----------------------------------------------------------------------------
(* The inputs                                                              *)

\* Every concatenation of at most n of the chunks.
RECURSIVE Texts(_, _)
Texts(chunks, n) ==
    IF n = 0 THEN {<<>>}
    ELSE LET shorter == Texts(chunks, n - 1)
         IN  shorter \cup {t \o c : t \in shorter, c \in chunks}

\* Every sequence of at most n elements of S.
SeqsUpTo(S, n) == UNION {[1..k -> S] : k \in 0..n}

Start(s, r, fs, b, e, ps, fm, fo, at) ==
    /\ sql = s /\ rows = r /\ findings = fs /\ base_ms = b /\ extra = e
    /\ paths = ps /\ fmt = fm /\ fail_on = fo /\ pc = at
    /\ stmts = <<>> /\ previous = <<>> /\ score = 0 /\ prev_score = 0
    /\ lock_ms = None /\ all_findings = <<>> /\ printed = <<>> /\ exit_code = None
    /\ catalog = RULES /\ calls = 0

-----------------------------------------------------------------------------
(* _split_statements on every text of at most MaxSplitLen characters       *)

MaxSplitLen == 5

\* The last one is the vertical tab, whitespace to strip() and split().
SplitChars == {<<"a">>, Semi, Sp, Nl, <<"-">>, <<"">>}

InitSplit ==
    \E s \in Texts(SplitChars, MaxSplitLen) :
        Start(s, 0, <<>>, None, <<>>, <<>>, "text", "high", "ready")

NextSplit == SplitStatements

SpecSplit == InitSplit /\ [][NextSplit]_vars

\* The segments of `text` between its semicolons: segment k starts at offset
\* SegStart(text, k) and ends before offset SegEnd(text, k).
SemiPositions(text) == {i \in 1..Len(text) : text[i] = ";"}

NthSemi(text, k) ==
    CHOOSE i \in SemiPositions(text) :
        Cardinality({j \in SemiPositions(text) : j < i}) = k - 1

SegCount(text) == Cardinality(SemiPositions(text)) + 1
SegStart(text, k) == IF k = 1 THEN 0 ELSE NthSemi(text, k - 1)
SegEnd(text, k) == IF k = SegCount(text) THEN Len(text) ELSE NthSemi(text, k) - 1
Segment(text, k) == SubSeq(text, SegStart(text, k) + 1, SegEnd(text, k))

\* The positions of a segment's non-whitespace characters, in order.
Inked(seg) == {i \in 1..Len(seg) : ~IsSpace(seg[i])}
NthInked(seg, j) ==
    CHOOSE i \in Inked(seg) : Cardinality({m \in Inked(seg) : m < i}) = j - 1

\* A segment is kept when it has a non-whitespace character and the first two
\* of them, from the first on, are not "--".
Kept(seg) ==
    /\ Inked(seg) # {}
    /\ LET first == NthInked(seg, 1)
       IN  ~(first < Len(seg) /\ seg[first] = "-" /\ seg[first + 1] = "-")

\* The segment with every whitespace run collapsed to one space and none at
\* either end: each non-whitespace character in turn, a space before it when
\* whitespace separates it from the one before.
Collapsed(seg) ==
    LET n == Cardinality(Inked(seg))
        gap(j) == j > 1 /\ NthInked(seg, j) > NthInked(seg, j - 1) + 1
        gapsUpTo(j) == Cardinality({m \in 1..j : gap(m)})
        len == n + gapsUpTo(n)
    IN  [x \in 1..len |->
            IF \E j \in 1..n : j + gapsUpTo(j) = x
            THEN seg[NthInked(seg, CHOOSE j \in 1..n : j + gapsUpTo(j) = x)]
            ELSE " "]

KeptSegments(text) == {k \in 1..SegCount(text) : Kept(Segment(text, k))}

NthKept(text, j) ==
    CHOOSE k \in KeptSegments(text) :
        Cardinality({m \in KeptSegments(text) : m < k}) = j - 1

ExpectedStatements(text) ==
    [j \in 1..Cardinality(KeptSegments(text)) |->
        LET k == NthKept(text, j)
        IN  <<Collapsed(Segment(text, k)),
              1 + Cardinality({i \in 1..SegStart(text, k) : text[i] = "\n"})>>]

\* C10: _split_statements yields, in source order, one pair per kept segment
\* (the text after the last semicolon being a segment too) and nothing for the
\* others; the pair's text is the segment with its whitespace runs collapsed and
\* its ends trimmed, and its line is 1 + the number of newlines before the
\* segment's start offset.
C10_SplitStatements == pc = "done" => stmts = ExpectedStatements(sql)

\* A text whose last statement has no semicolon after it, with a discarded
\* segment before it, a collapsed whitespace run and a line beyond the first.
C10_Witness ==
    /\ pc = "done"
    /\ Len(stmts) >= 1
    /\ Len(stmts) < SegCount(sql)
    /\ sql[Len(sql)] # ";"
    /\ stmts[Len(stmts)][2] >= 2
    /\ \E i \in 1..Len(stmts[Len(stmts)][1]) : stmts[Len(stmts)][1][i] = " "

-----------------------------------------------------------------------------
(* analyze on scripts of DROP TABLE statements, comments and line breaks   *)

MaxAnalyzeChunks == 4

Dashes == <<"-", "-">>

\* drop<newline><space>Table t
S_DropTableSplit == <<"d", "r", "o", "p", "\n", " ", "T", "a", "b", "l", "e", " ", "t">>

\* The last chunk is LATIN CAPITAL LETTER A WITH MACRON, a word character.
AnalyzeChunks ==
    {S_DropTable, S_DropTableSplit, Semi, Nl, Sp, Dashes, <<"x">>, <<"U+0100">>}

InitAnalyze ==
    \E s \in Texts(AnalyzeChunks, MaxAnalyzeChunks) :
        Start(s, 0, <<>>, None, <<>>, <<>>, "text", "high", "ready")

NextAnalyze == Analyze

SpecAnalyze == InitAnalyze /\ [][NextAnalyze]_vars

\* The rules of the catalog that match a normalized statement.
Matching(stmt) == {r \in 1..Len(RULES) : Search(RULES[r].pattern, stmt)}

\* How many findings the pairs before pair i produce.
RECURSIVE FindingsBefore(_, _)
FindingsBefore(pairs, i) ==
    IF i <= 1 THEN 0
    ELSE FindingsBefore(pairs, i - 1) + Cardinality(Matching(pairs[i - 1][1]))

\* The yielded pair that produced finding n.
Owner(pairs, n) ==
    CHOOSE i \in 1..Len(pairs) :
        /\ FindingsBefore(pairs, i) < n
        /\ n <= FindingsBefore(pairs, i) + Cardinality(Matching(pairs[i][1]))

\* The physical line of the first non-whitespace character of segment k.
StartLine(text, k) ==
    LET first == SegStart(text, k) + NthInked(Segment(text, k), 1)
    IN  1 + Cardinality({i \in 1..(first - 1) : text[i] = "\n"})

\* C1: every finding's line is the 1-based physical line on which the statement
\* that produced it begins, that is, the line of its first non-whitespace
\* character.
C1_LineIsStatementStart ==
    pc = "analyzed" =>
        \A n \in 1..Len(findings) :
            findings[n].line =
                StartLine(sql, NthKept(sql, Owner(_split_statements(sql), n)))

\* Whether offset p of the segment lies behind a "--" of the same line.
InLineComment(seg, p) ==
    \E q \in 1..p :
        /\ q < Len(seg)
        /\ seg[q] = "-" /\ seg[q + 1] = "-"
        /\ \A m \in q..p : seg[m] # "\n"

\* The segment holds the keywords DROP TABLE, in any letter case and with any
\* whitespace run between them, outside a line comment.
HasDropTable(seg) ==
    \E p \in 0..Len(seg) : Ends(P_BAN001, seg, {p}) # {} /\ ~InLineComment(seg, p)

\* C2: every semicolon-delimited statement that contains the keywords DROP TABLE
\* produces a finding with rule_id BAN001, severity critical and lock type
\* ACCESS EXCLUSIVE (a statement produces at most one, so there are as many such
\* findings as such statements).
C2_DropTableFound ==
    pc = "analyzed" =>
        Cardinality({n \in 1..Len(findings) :
                        /\ findings[n].rule_id = "BAN001"
                        /\ findings[n].severity = "critical"
                        /\ findings[n].lock_type = "ACCESS EXCLUSIVE"})
            >= Cardinality({k \in 1..SegCount(sql) : HasDropTable(Segment(sql, k))})

-----------------------------------------------------------------------------
(* analyze on ADD ... NOT NULL and ADD ... FOREIGN KEY statements          *)

MaxLckChunks == 4

T_x == <<"x">>

\* NOT<newline><space>NULL: a whitespace run that the splitter collapses
NotNullChunk == Sp \o K_NOT \o Nl \o Sp \o K_NULL
NotNullChunks ==
    { K_ADD \o Sp \o K_COLUMN \o Sp \o T_c \o Sp \o <<"i", "n", "t">>,
      <<"a", "d", "d">> \o Sp \o T_c,
      NotNullChunk,
      Sp \o <<"d", "e", "f", "a", "u", "l", "t">>,
      Sp \o T_x,
      T_x }

ForeignKeyChunks ==
    { K_ADD,
      Sp \o K_CONSTRAINT \o Sp \o <<"f">>,
      Sp \o <<"f", "o", "r", "e", "i", "g", "n">> \o Sp \o K_KEY,
      Sp \o K_NOT \o Sp \o Sp \o K_VALID,
      Sp \o T_x,
      T_x }

InitLck ==
    \E s \in Texts(NotNullChunks, MaxLckChunks) \cup Texts(ForeignKeyChunks, MaxLckChunks) :
        Start(s, 0, <<>>, None, <<>>, <<>>, "text", "high", "ready")

NextLck == Analyze

SpecLck == InitLck /\ [][NextLck]_vars

\* Where a match of the pattern can start in s, and where a match can end.
StartsOf(re, s) == {p \in 0..Len(s) : Ends(re, s, {p}) # {}}
EndsOf(re, s) == UNION {Ends(re, s, {p}) : p \in 0..Len(s)}

Emits(id) == \E n \in 1..Len(findings) : findings[n].rule_id = id

\* ADD [COLUMN] <name> <type> ... NOT NULL
AddNotNull ==
    <<WordB, Lit(K_ADD), Spaces, Opt(<<Lit(K_COLUMN), Spaces>>),
      NonSpaces, Spaces, NonSpaces, NotSemis,
      WordB, Lit(K_NOT), Spaces, Lit(K_NULL), WordB>>
NotNullKeyword == <<WordB, Lit(K_NOT), Spaces, Lit(K_NULL), WordB>>
DefaultKeyword == <<WordB, Lit(K_DEFAULT), WordB>>

\* ADD [CONSTRAINT <name>] FOREIGN KEY
AddForeignKey ==
    <<WordB, Lit(K_ADD), Spaces,
      Opt(<<Lit(K_CONSTRAINT), Spaces, NonSpaces, Spaces>>),
      Lit(K_FOREIGN), Spaces, Lit(K_KEY), WordB>>
ForeignKeyKeyword == <<WordB, Lit(K_FOREIGN), Spaces, Lit(K_KEY), WordB>>
NotValidKeyword == <<WordB, Lit(K_NOT), Spaces, Lit(K_VALID), WordB>>

\* Some occurrence of `trigger` in s ends where no occurrence of `clause` starts
\* at or after.
SomeWithoutLater(trigger, clause, s) ==
    \E e \in EndsOf(trigger, s) : \A q \in StartsOf(clause, s) : q < e

\* The one normalized statement of a script without semicolons.
TheStatement == _split_statements(sql)[1][1]

LckCase ==
    /\ pc = "analyzed"
    /\ Len(_split_statements(sql)) = 1

\* LCK001, as C3 states it.
NotNullRuleHolds ==
    LckCase /\ Search(AddNotNull, TheStatement) =>
        (Emits("LCK001") <=> SomeWithoutLater(NotNullKeyword, DefaultKeyword, TheStatement))

\* C3 as stated: for a statement containing ADD [COLUMN] <name> <type> ... NOT
\* NULL, LCK001 is emitted iff some NOT NULL has no DEFAULT keyword anywhere
\* after it; for a statement containing ADD [CONSTRAINT <name>] FOREIGN KEY,
\* LCK003 is emitted iff some FOREIGN KEY occurrence has no NOT VALID anywhere
\* after it.
C3_AsStated ==
    /\ NotNullRuleHolds
    /\ LckCase /\ Search(AddForeignKey, TheStatement) =>
           (Emits("LCK003") <=>
                SomeWithoutLater(ForeignKeyKeyword, NotValidKeyword, TheStatement))

\* C3, amended: the suppressing-clause check covers the whole rest of the
\* normalized statement. LCK001 is as stated; LCK003 is emitted iff some
\* occurrence of the trigger ADD [CONSTRAINT <name>] FOREIGN KEY (not any
\* FOREIGN KEY of the statement) has no NOT VALID anywhere after it.
C3_WholeRestOfStatement ==
    /\ NotNullRuleHolds
    /\ LckCase /\ Search(AddForeignKey, TheStatement) =>
           (Emits("LCK003") <=>
                SomeWithoutLater(AddForeignKey, NotValidKeyword, TheStatement))

\* A NOT NULL column whose DEFAULT comes after other text: no LCK001.
C3_Witness ==
    /\ LckCase
    /\ Search(AddNotNull, TheStatement)
    /\ ~Emits("LCK001")
    /\ \E e \in EndsOf(NotNullKeyword, TheStatement) :
           \E q \in StartsOf(DefaultKeyword, TheStatement) : q > e + 1

-----------------------------------------------------------------------------
(* estimate_lock_ms on bounded arguments                                   *)

MaxBase == 10
MaxRowTens == 3

RowValues ==
    {-1, 0, 1, 1000000, 5000000}
        \cup {10000 * k - 1 : k \in 1..MaxRowTens} \cup {10000 * k : k \in 1..MaxRowTens}

BaseValues == {None} \cup {Some(b) : b \in (0..MaxBase) \cup {50}}

InitEstimate ==
    \E b \in BaseValues : \E r \in RowValues :
        Start(<<>>, r, <<>>, b, <<>>, <<>>, "text", "high", "ready")

NextEstimate == EstimateLockMs

SpecEstimate == InitEstimate /\ [][NextEstimate]_vars

\* floor(n / 10000) for 0 <= n < 10010000: the q with 10000 q <= n < 10000 (q + 1)
FloorTenThousandths(n) ==
    CHOOSE q \in 0..1000 : 10000 * q <= n /\ n < 10000 * (q + 1)

\* C4: estimate_lock_ms returns base_ms unchanged when rows <= 0, and otherwise
\* max(base_ms if present and non-zero else 1,
\*     floor(rows / 10000) + (base_ms if present else 0));
\* (10, 1000000) -> 110, (None, 1000000) -> 100, (50, 0) -> 50, (None, 0) -> None.
C4_EstimateFormula ==
    pc = "done" =>
        /\ rows <= 0 => lock_ms = base_ms
        /\ rows > 0 =>
               lock_ms =
                   Some(Max(IF base_ms # None /\ base_ms[1] # 0 THEN base_ms[1] ELSE 1,
                            FloorTenThousandths(rows)
                                + (IF base_ms # None THEN base_ms[1] ELSE 0)))
        /\ base_ms = Some(10) /\ rows = 1000000 => lock_ms = Some(110)
        /\ base_ms = None /\ rows = 1000000 => lock_ms = Some(100)
        /\ base_ms = Some(50) /\ rows = 0 => lock_ms = Some(50)
        /\ base_ms = None /\ rows = 0 => lock_ms = None

C4_Witness ==
    /\ pc = "done"
    /\ base_ms = Some(10)
    /\ rows = 1000000
    /\ lock_ms = Some(110)

-----------------------------------------------------------------------------
(* analyze with a row-count hint, on scripts with a statement per rule     *)

MaxRowStatements == 1

T_int == <<"i", "n", "t">>
AlterT == K_ALTER \o Sp \o K_TABLE \o Sp \o T_t \o Sp

S_AddNotNull    == AlterT \o K_ADD \o Sp \o K_COLUMN \o Sp \o T_c \o Sp \o T_int
                       \o Sp \o K_NOT \o Sp \o K_NULL
S_CreateIndex   == K_CREATE \o Sp \o K_INDEX \o Sp \o <<"i">> \o Sp \o <<"O", "N">>
                       \o Sp \o T_t \o <<"(", "c", ")">>
S_AddForeignKey == AlterT \o K_ADD \o Sp \o K_FOREIGN \o Sp \o K_KEY \o Sp \o <<"(", "c", ")">>
S_AlterType     == AlterT \o K_ALTER \o Sp \o K_COLUMN \o Sp \o T_c \o Sp \o K_TYPE \o Sp \o T_int
S_SetNotNull    == AlterT \o K_ALTER \o Sp \o K_COLUMN \o Sp \o T_c \o Sp \o K_SET
                       \o Sp \o K_NOT \o Sp \o K_NULL

\* One statement per rule of the catalog, and one that matches none.
RuleStatements ==
    {S_DropTable, S_DropColumn, S_Rename, S_AddNotNull, S_CreateIndex,
     S_AddForeignKey, S_AlterType, S_SetNotNull, S_CreateTable}

\* Each statement with its semicolon and a line break.
Terminated(statements) == {s \o Semi \o Nl : s \in statements}

InitRows ==
    \E s \in Texts(Terminated(RuleStatements), MaxRowStatements) : \E r \in RowValues :
        Start(s, r, <<>>, None, <<>>, <<>>, "text", "high", "ready")

NextRows == Analyze

SpecRows == InitRows /\ [][NextRows]_vars

\* The catalog's base_lock_ms of a rule id.
BaseOf(id) == RULES[CHOOSE r \in 1..Len(RULES) : RULES[r].id = id].base

NoBaseline == {"LCK001", "LCK002", "LCK003", "LCK004", "LCK005"}

\* C5: with a positive row-count hint every finding has a lock_ms, which is at
\* least 1 and at least the rule's base_lock_ms when it has one; the rules
\* without one are LCK001-LCK005, and for them lock_ms = max(1, floor(rows /
\* 10000)), so that 5000000 rows give LCK004 an estimate above 100.
C5_EstimateNeverZero ==
    pc = "analyzed" /\ rows > 0 =>
        \A n \in 1..Len(findings) :
            LET f == findings[n]
                base == BaseOf(f.rule_id)
            IN  /\ f.lock_ms # None
                /\ f.lock_ms[1] >= 1
                /\ base # None => f.lock_ms[1] >= base[1]
                /\ base = None <=> f.rule_id \in NoBaseline
                /\ base = None => f.lock_ms[1] = Max(1, FloorTenThousandths(rows))
                /\ f.rule_id = "LCK004" /\ rows = 5000000 => f.lock_ms[1] > 100

\* A rule without a baseline and a hint below 10000 rows: the floor of 1.
C5_Witness ==
    /\ pc = "analyzed"
    /\ rows = 1
    /\ \E n \in 1..Len(findings) :
           findings[n].rule_id = "LCK004" /\ findings[n].lock_ms = Some(1)

-----------------------------------------------------------------------------
(* risk_score on sequences of findings of every severity                   *)

MaxFindings == 4

\* A finding of the severity; "info" is a severity the weights do not know.
FindingOf(severity) ==
    [rule_id |-> "X", severity |-> severity, message |-> "", line |-> 1,
     sql |-> <<>>, lock_type |-> "", lock_ms |-> None]

Severities == {"low", "medium", "high", "critical"}

InitRisk ==
    \E fs \in SeqsUpTo({FindingOf(s) : s \in Severities \cup {"info"}}, MaxFindings) :
        Start(<<>>, 0, fs, None, <<>>, <<>>, "text", "high", "analyzed")

NextRisk == RiskScore

SpecRisk == InitRisk /\ [][NextRisk]_vars

HowMany(fs, severity) == Cardinality({n \in 1..Len(fs) : fs[n].severity = severity})

\* C6: for findings with severities among low, medium, high and critical,
\* risk_score is min(100, 25 * the sum of the weights 1, 2, 3, 4); so it lies in
\* 0..100, is 0 for no finding, is the same for every order of the findings and
\* does not decrease when a finding is appended.
C6_RiskScore ==
    pc = "scored" /\ (\A n \in 1..Len(findings) : findings[n].severity \in Severities) =>
        /\ score = Min(100, 25 * (1 * HowMany(findings, "low")
                                  + 2 * HowMany(findings, "medium")
                                  + 3 * HowMany(findings, "high")
                                  + 4 * HowMany(findings, "critical")))
        /\ score \in 0..100
        /\ findings = <<>> => score = 0
        /\ \A p \in Permutations(1..Len(findings)) :
               risk_score([n \in 1..Len(findings) |-> findings[p[n]]]) = score
        /\ \A s \in Severities : risk_score(Append(findings, FindingOf(s))) >= score

\* Three findings whose weights sum beyond the clamp.
C6_Witness ==
    /\ pc = "scored"
    /\ Len(findings) = 3
    /\ \A n \in 1..Len(findings) : findings[n].severity \in {"medium", "high"}
    /\ score = 100

-----------------------------------------------------------------------------
(* A caller that analyses and scores a script, then appends a statement    *)
(* (or nothing) and does so again                                          *)

MaxScriptStatements == 2

\* ALTER TABLE t DROP COLUMN c, ADD FOREIGN KEY (c): BAN002 and LCK003
S_DropAndAddFk ==
    S_DropColumn \o <<",">> \o Sp \o K_ADD \o Sp \o K_FOREIGN \o Sp \o K_KEY
        \o Sp \o <<"(", "c", ")">>

ScriptStatements ==
    Terminated({S_DropTable, S_DropColumn, S_Rename, S_CreateTable, S_DropAndAddFk})

InitSession ==
    \E s \in Texts(ScriptStatements, MaxScriptStatements) :
        \E e \in ScriptStatements \cup {<<>>} : \E r \in {0, 1000000} :
            Start(s, r, <<>>, None, e, <<>>, "text", "high", "ready")

NextSession == Analyze \/ RiskScore \/ Extend

SpecSession == InitSession /\ [][NextSession]_vars

\* C7: the risk score scales with the number of dangerous statements: when a
\* script with at least one finding gets one more statement that adds a
\* finding, 0 < risk_score(before) < risk_score(after) <= 100.
C7_ScoreScales ==
    /\ pc = "scored"
    /\ calls = 2
    /\ Len(previous) >= 1
    /\ Len(findings) > Len(previous)
    => 0 < prev_score /\ prev_score < score /\ score <= 100

\* Every (statement, rule) pair in the order analyze visits them.
AllPairs(pairs) ==
    [n \in 1..(Len(pairs) * Len(RULES)) |->
        <<((n - 1) \div Len(RULES)) + 1, ((n - 1) % Len(RULES)) + 1>>]

\* One finding per pair whose rule matches its statement, in that order.
ExpectedFindings(text, rws) ==
    LET pairs == _split_statements(text)
        hits == SelectSeq(AllPairs(pairs),
                          LAMBDA h : Search(RULES[h[2]].pattern, pairs[h[1]][1]))
    IN  [n \in 1..Len(hits) |->
            LET stmt == pairs[hits[n][1]]
                rule == RULES[hits[n][2]]
            IN  [rule_id |-> rule.id, severity |-> rule.severity,
                 message |-> rule.message, line |-> stmt[2],
                 sql |-> Slice(stmt[1], 0, SnippetLen), lock_type |-> rule.lock_type,
                 lock_ms |-> estimate_lock_ms(rule.base, rws)]]

\* C8: analyze returns one finding per matching (statement, rule) pair, the
\* statements in source order and for each the rules in declaration order
\* (BAN001 ... LCK005), without stopping at a statement's first match; a second
\* call on the same input returns an equal list, and the catalog stays as it is.
C8_FindingOrder ==
    pc \in {"analyzed", "scored"} =>
        /\ findings = ExpectedFindings(sql, rows)
        /\ [r \in 1..Len(RULES) |-> RULES[r].id] =
               <<"BAN001", "BAN002", "BAN003", "LCK001", "LCK002", "LCK003",
                 "LCK004", "LCK005">>
        /\ catalog = RULES
        /\ calls >= 2 /\ extra = <<>> => findings = previous

\* The second call on the same script, whose first statement matches two rules
\* and whose second matches one.
C8_Witness ==
    /\ pc = "analyzed"
    /\ calls = 2
    /\ extra = <<>>
    /\ Len(findings) = 3
    /\ findings[1].rule_id = "BAN002" /\ findings[1].sql = S_DropAndAddFk
    /\ findings[2].rule_id = "LCK003" /\ findings[2].sql = S_DropAndAddFk
    /\ findings[3].rule_id = "BAN001" /\ findings[3].sql = S_DropTable
    /\ previous = findings

-----------------------------------------------------------------------------
(* lint on every list of at most MaxPaths path arguments                   *)

MaxPaths == 2

InitLint ==
    \E ps \in SeqsUpTo(PathArgs, MaxPaths) \ {<<>>} :
        \E fm \in {"text", "json", "sarif", "xml"} :
            \E fo \in DOMAIN SEV_RANK \cup {"none"} :
                Start(<<>>, 0, <<>>, None, <<>>, ps, fm, fo, "ready")

NextLint == Lint

SpecLint == InitLint /\ [][NextLint]_vars

\* The elements of a sequence.
Range(s) == {s[i] : i \in 1..Len(s)}

\* Every finding of every file lint analysed.
FindingsOfRun ==
    UNION {Range(analyze(FileText[file], rows)) :
               file \in Range(_collect_sql_files(paths).files)}

\* The ranks C9 gives the severities.
RankInClaim(severity) ==
    CASE severity = "low" -> 1 [] severity = "medium" -> 2
      [] severity = "high" -> 3 [] severity = "critical" -> 4

LintRan ==
    /\ pc = "exited"
    /\ _collect_sql_files(paths).found
    /\ _collect_sql_files(paths).files # <<>>

\* C9: when lint has collected at least one file, it exits with status 1 iff
\* some finding of some analysed file has a severity of rank (low 1 < medium 2 <
\* high 3 < critical 4) at least that of the --fail-on severity, and with
\* status 0 otherwise, whatever the output format.
C9_ExitStatus ==
    LintRan /\ fail_on \in DOMAIN SEV_RANK =>
        /\ exit_code \in {Some(0), Some(1)}
        /\ exit_code = Some(1) <=>
               \E f \in FindingsOfRun :
                   RankInClaim(f.severity) >= RankInClaim(fail_on)

\* A run whose worst finding is exactly as severe as --fail-on, in SARIF.
C9_Witness ==
    /\ LintRan
    /\ fmt = "sarif"
    /\ fail_on = "medium"
    /\ FindingsOfRun # {}
    /\ \A f \in FindingsOfRun : f.severity = "medium"
    /\ exit_code = Some(1)

====
